---- MODULE Spec2Model ----
(***************************************************************************)
(* Model of upnp-portmapping.go: SSDP discovery of a UPnP gateway          *)
(* (upnpLocation, ssdpRawSearch) followed by the enumeration of its port   *)
(* mapping table (portMappingByIdx, driven by main).                       *)
(*                                                                         *)
(* Go strings are sequences of tokens; a token is one character (":", "[", *)
(* "]") or an unsplittable run of characters ("a" a name, "5" digits).     *)
(* A *http.Response is its index in allResponses (0 is the nil pointer).   *)
(***************************************************************************)
EXTENDS Integers, Sequences, FiniteSets, TLC

VARIABLES
    pc,            \* position of main
    host,          \* flag -host
    port,          \* flag -p
    allResponses,  \* ssdpRawSearch: what httpu.Do returned
    responses,     \* ssdpRawSearch: the retained responses (indices)
    resp,          \* the response ssdpRawSearch returned (0: nil)
    searchErr,     \* the error ssdpRawSearch returned
    loc,           \* main: loc (<<>>: nil, else <<URL>>)
    err,           \* main: err
    ipclients,     \* main: the handles the resolver returned
    tables,        \* the table length of the gateway behind each handle called so far
    ci,            \* main: position of the range loop over ipclients
    i,             \* main: the inner loop's i
    calls,         \* per handle, the index arguments of portMappingByIdx so far
    logged         \* per handle, the entries log.Println(pme) printed so far

vars == <<pc, host, port, allResponses, responses, resp, searchErr, loc, err,
          ipclients, tables, ci, i, calls, logged>>

----------------------------------------------------------------------------
\* Bounds of the model.

MaxResponses == 3
MaxHostLen == 6
MaxClients == 2
MaxShort == 2
MaxOver == 1

\* Program constants.

StatusOK == 200
MaxEntries == 50
Uint16Mod == 65536

NoErr == "nil"
ErrNoResponse == "No SSDP response avaiable"
ErrTransport == "httpu error"
ErrResolver == "resolver error"
ErrRPC == "soap error"

----------------------------------------------------------------------------
\* Strings.

Contains(s, t) == \E k \in 1..Len(s) : s[k] = t

Index(s, t) == CHOOSE k \in 1..Len(s) : s[k] = t /\ \A j \in 1..(k - 1) : s[j] # t

LastIndex(s, t) == CHOOSE k \in 1..Len(s) : s[k] = t /\ \A j \in (k + 1)..Len(s) : s[j] # t

RECURSIVE Split(_, _)
Split(s, sep) ==
    IF ~Contains(s, sep)
    THEN <<s>>
    ELSE LET k == Index(s, sep)
         IN  <<SubSeq(s, 1, k - 1)>> \o Split(SubSeq(s, k + 1, Len(s)), sep)

Sprintf(h, p) == h \o <<":">> \o p

----------------------------------------------------------------------------
\* net/url, as far as the program uses it.

Digits == {"5"}
HexDigits == {"a", "5"}
HostTokens == {"a", ":", "[", "]", "5"}
BadLocation == <<"%zz">>
DescPath == <<"/desc.xml">>

validOptionalPort(p) ==
    \/ p = <<>>
    \/ p[1] = ":" /\ \A k \in 2..Len(p) : p[k] \in Digits

\* An IPv6 address in its compressed form: groups of hex digits separated by
\* ":", with one "::".
validIPv6(a) ==
    /\ \A k \in 1..Len(a) : a[k] \in HexDigits \cup {":"}
    /\ LET groups == Split(a, ":")
           n == Len(groups)
           empty == {k \in 1..n : groups[k] = <<>>}
       IN  /\ n >= 3
           /\ \A k \in 1..n : Len(groups[k]) <= 4
           /\ \/ n = 3 /\ empty = {1, 2, 3}
              \/ empty = {1, 2}
              \/ empty = {n - 1, n}
              \/ \E k \in 2..(n - 1) : empty = {k}

\* parseHost of net/url, for the hosts every Go release takes: an IP literal
\* in brackets or a name without a colon, each with an optional ":port".
parseHost(h) ==
    IF h # <<>> /\ h[1] = "["
    THEN /\ Contains(h, "]")
         /\ validOptionalPort(SubSeq(h, LastIndex(h, "]") + 1, Len(h)))
         /\ validIPv6(SubSeq(h, 2, LastIndex(h, "]") - 1))
    ELSE /\ ~Contains(h, "[")
         /\ ~Contains(h, "]")
         /\ Contains(h, ":") =>
              /\ Index(h, ":") = LastIndex(h, ":")
              /\ validOptionalPort(SubSeq(h, LastIndex(h, ":"), Len(h)))

NilURL == [Scheme |-> "", Host |-> <<>>, Path |-> <<>>]

\* url.Parse of an absolute URL scheme://host/path: the URL and whether it parsed.
urlParse(raw) ==
    IF Len(raw) >= 3 /\ raw[2] = "://"
    THEN LET h == SubSeq(raw, 3, Len(raw) - 1)
         IN  [ok |-> parseHost(h),
              url |-> [Scheme |-> raw[1], Host |-> h, Path |-> <<raw[Len(raw)]>>]]
    ELSE [ok |-> raw # BadLocation,
          url |-> [Scheme |-> "", Host |-> <<>>, Path |-> raw]]

\* (*URL).String
urlString(u) ==
    IF u.Scheme # "" THEN <<u.Scheme, "://">> \o u.Host \o u.Path ELSE u.Path

\* (*http.Response).Location: ErrNoLocation without the header, else url.Parse.
ResponseLocation(r) ==
    IF r.Location = <<>>
    THEN [ok |-> FALSE, url |-> NilURL]
    ELSE urlParse(r.Location)

----------------------------------------------------------------------------
\* ssdpRawSearch.

\* LoopBody without the seenUsns test: every usable response is retained.
LoopBodyNoDedup(st, response, n) ==
    IF response.StatusCode # StatusOK \/ ~ResponseLocation(response).ok
    THEN st
    ELSE [seenUsns |-> st.seenUsns, responses |-> Append(st.responses, n)]

\* LoopBody discarding a response without USN instead of keying it by location.
LoopBodyDropNoUsn(st, response, n) ==
    IF \/ response.StatusCode # StatusOK
       \/ ~ResponseLocation(response).ok
       \/ response.USN = <<>>
       \/ response.USN \in st.seenUsns
    THEN st
    ELSE [seenUsns |-> st.seenUsns \cup {response.USN},
          responses |-> Append(st.responses, n)]

\* One iteration of the loop over allResponses; st is [seenUsns, responses].
LoopBody(st, response, n) ==
    IF response.StatusCode # StatusOK
    THEN st
    ELSE LET location == ResponseLocation(response)
         IN  IF ~location.ok
             THEN st
             ELSE LET usn == IF response.USN = <<>>
                             THEN urlString(location.url)
                             ELSE response.USN
                  IN  IF usn \notin st.seenUsns
                      THEN [seenUsns |-> st.seenUsns \cup {usn},
                            responses |-> Append(st.responses, n)]
                      ELSE st

RECURSIVE FilterLoop(_, _, _)
FilterLoop(all, n, st) ==
    IF n > Len(all) THEN st ELSE FilterLoop(all, n + 1, LoopBody(st, all[n], n))

Retained(all) == FilterLoop(all, 1, [seenUsns |-> {}, responses |-> <<>>]).responses

\* SearchReturn taking the last retained response instead of the first.
SearchReturnLast(retained) ==
    IF Len(retained) = 0
    THEN [resp |-> 0, err |-> ErrNoResponse]
    ELSE [resp |-> retained[Len(retained)], err |-> NoErr]

SearchReturn(retained) ==
    IF Len(retained) = 0
    THEN [resp |-> 0, err |-> ErrNoResponse]
    ELSE [resp |-> retained[1], err |-> NoErr]

----------------------------------------------------------------------------
\* upnpLocation, after ssdpRawSearch returned resp.

RewriteHost(u, h) ==
    IF Contains(u.Host, ":")
    THEN LET upnpPort == Split(u.Host, ":")[2]
         IN  [u EXCEPT !.Host = Sprintf(h, upnpPort)]
    ELSE [u EXCEPT !.Host = h]

LocationOf(response, h) ==
    LET parsed == urlParse(response.Location)
    IN  IF ~parsed.ok
        THEN [loc |-> <<>>, err |-> "parse error"]
        ELSE [loc |-> <<RewriteHost(parsed.url, h)>>, err |-> NoErr]

----------------------------------------------------------------------------
\* soap and the gateway.

RECURSIVE MarshalUi2(_)
MarshalUi2(v) ==
    IF v < 10 THEN <<v>> ELSE Append(MarshalUi2(v \div 10), v % 10)

RECURSIVE UnmarshalUi2(_)
UnmarshalUi2(s) ==
    IF Len(s) = 1
    THEN s[1]
    ELSE 10 * UnmarshalUi2(SubSeq(s, 1, Len(s) - 1)) + s[Len(s)]

Entry(n) == [NewPortMappingIndex |-> n]

\* GetGenericPortMappingEntry on a gateway whose table holds entries 0..tableLen-1.
PerformAction(tableLen, pmr) ==
    LET n == UnmarshalUi2(pmr.NewPortMappingIndex)
    IN  IF n < tableLen
        THEN [pme |-> <<Entry(n)>>, err |-> NoErr]
        ELSE [pme |-> <<>>, err |-> ErrRPC]

\* portMappingByIdx asking for the entry after the one wanted.
portMappingByIdxOffByOne(conn, index) ==
    PerformAction(conn, [NewPortMappingIndex |-> MarshalUi2(index + 1)])

portMappingByIdx(conn, index) ==
    PerformAction(conn, [NewPortMappingIndex |-> MarshalUi2(index)])

Uint16(n) == n % Uint16Mod

\* LoopCond with <= for <.
LoopCondInclusive(n) == n <= MaxEntries

LoopCond(n) == n < MaxEntries

----------------------------------------------------------------------------
\* Inputs.

ProbeHosts == {<<"h">>, <<"a">>}

HostStrings == UNION {[1..n -> HostTokens] : n \in 0..MaxHostLen}

RawURL(h) == <<"http", "://">> \o h \o DescPath

L1 == RawURL(<<"a", ":", "5">>)
L2 == RawURL(<<"a">>)
U1 == <<"uuid:1">>

DedupResponses ==
    [StatusCode : {StatusOK, 404},
     Location : {<<>>, BadLocation, L1, L2},
     USN : {<<>>, U1, L1}]

RewriteResponses ==
    [StatusCode : {StatusOK}, Location : {RawURL(h) : h \in HostStrings}, USN : {<<>>}]

ResponseSeqs ==
    UNION {[1..n -> DedupResponses] : n \in 0..MaxResponses}
        \cup {<<r>> : r \in RewriteResponses}

TableLens == (0..MaxShort) \cup ((MaxEntries - 1)..(MaxEntries + MaxOver))

----------------------------------------------------------------------------
\* main.

Init ==
    /\ pc = "start"
    /\ host \in ProbeHosts
    /\ port = <<":", "1900">>
    /\ allResponses = <<>>
    /\ responses = <<>>
    /\ resp = 0
    /\ searchErr = NoErr
    /\ loc = <<>>
    /\ err = NoErr
    /\ ipclients = <<>>
    /\ tables = <<>>
    /\ ci = 0
    /\ i = 0
    /\ calls = <<>>
    /\ logged = <<>>

\* upnpLocation: httpu.NewHTTPUClient fails; main logs the error and exits.
NewHTTPUClientErr ==
    /\ pc = "start"
    /\ err' = ErrTransport
    /\ pc' = "fatal"
    /\ UNCHANGED <<host, port, allResponses, responses, resp, searchErr, loc,
                   ipclients, tables, ci, i, calls, logged>>

\* ssdpRawSearch: httpu.Do fails.
SsdpRawSearchDoErr ==
    /\ pc = "start"
    /\ searchErr' = ErrTransport
    /\ resp' = 0
    /\ pc' = "searched"
    /\ UNCHANGED <<host, port, allResponses, responses, loc, err,
                   ipclients, tables, ci, i, calls, logged>>

\* ssdpRawSearch: httpu.Do returns allResponses.
SsdpRawSearch ==
    /\ pc = "start"
    /\ \E all \in ResponseSeqs :
         /\ allResponses' = all
         /\ responses' = Retained(all)
         /\ resp' = SearchReturn(Retained(all)).resp
         /\ searchErr' = SearchReturn(Retained(all)).err
    /\ pc' = "searched"
    /\ UNCHANGED <<host, port, loc, err, ipclients, tables, ci, i, calls, logged>>

\* UpnpLocationErr dropping the error: main gets a zero-value location.
UpnpLocationErrDropped ==
    /\ pc = "searched"
    /\ searchErr # NoErr
    /\ loc' = <<NilURL>>
    /\ err' = NoErr
    /\ pc' = "located"
    /\ UNCHANGED <<host, port, allResponses, responses, resp, searchErr,
                   ipclients, tables, ci, i, calls, logged>>

\* upnpLocation returns the error of ssdpRawSearch; main logs it and exits.
UpnpLocationErr ==
    /\ pc = "searched"
    /\ searchErr # NoErr
    /\ loc' = <<>>
    /\ err' = searchErr
    /\ pc' = "fatal"
    /\ UNCHANGED <<host, port, allResponses, responses, resp, searchErr,
                   ipclients, tables, ci, i, calls, logged>>

\* upnpLocation rewrites the Location of resp and returns it to main.
UpnpLocation ==
    /\ pc = "searched"
    /\ searchErr = NoErr
    /\ LET r == LocationOf(allResponses[resp], host)
       IN  /\ loc' = r.loc
           /\ err' = r.err
           /\ pc' = IF r.err # NoErr THEN "fatal" ELSE "located"
    /\ UNCHANGED <<host, port, allResponses, responses, resp, searchErr,
                   ipclients, tables, ci, i, calls, logged>>

\* What the range loop does after the handle at position c is finished.
NextClient(c, clients) ==
    IF c + 1 > Len(clients) THEN "done" ELSE "loop"

\* NewWANIPConnection1ClientsByURL fails.
ResolveErr ==
    /\ pc = "located"
    /\ err' = ErrResolver
    /\ pc' = "fatal"
    /\ UNCHANGED <<host, port, allResponses, responses, resp, searchErr, loc,
                   ipclients, tables, ci, i, calls, logged>>

\* NewWANIPConnection1ClientsByURL returns the handles. The locals of
\* upnpLocation and ssdpRawSearch are gone, and main does not read loc again.
Resolve ==
    /\ pc = "located"
    /\ \E n \in 0..MaxClients :
         /\ ipclients' = [c \in 1..n |-> c]
         /\ calls' = [c \in 1..n |-> <<>>]
         /\ logged' = [c \in 1..n |-> <<>>]
         /\ pc' = NextClient(0, [c \in 1..n |-> c])
    /\ ci' = 1
    /\ i' = 0
    /\ err' = NoErr
    /\ allResponses' = <<>>
    /\ responses' = <<>>
    /\ resp' = 0
    /\ loc' = <<>>
    /\ UNCHANGED <<host, port, searchErr, tables>>

\* The table lengths the gateway behind the current handle may have: any, when
\* this is the first call on the handle, and the one it has from then on.
TableChoices ==
    IF ci > Len(tables) THEN TableLens ELSE {tables[ci]}

\* GetEntryErr with log.Println for log.Fatal: the loop goes on.
GetEntryErrLogged ==
    /\ pc = "loop"
    /\ LoopCond(i)
    /\ \E K \in TableChoices :
         LET r == portMappingByIdx(K, Uint16(i))
         IN  /\ r.err # NoErr
             /\ err' = r.err
             /\ tables' = IF ci > Len(tables) THEN Append(tables, K) ELSE tables
    /\ calls' = [calls EXCEPT ![ci] = Append(@, Uint16(i))]
    /\ IF LoopCond(i + 1)
       THEN /\ i' = i + 1
            /\ ci' = ci
            /\ pc' = "loop"
       ELSE /\ i' = 0
            /\ ci' = ci + 1
            /\ pc' = NextClient(ci, ipclients)
    /\ UNCHANGED <<host, port, allResponses, responses, resp, searchErr, loc,
                   ipclients, logged>>

\* One iteration of the inner loop whose RPC fails: log.Fatal(err).
GetEntryErr ==
    /\ pc = "loop"
    /\ LoopCond(i)
    /\ \E K \in TableChoices :
         LET r == portMappingByIdx(K, Uint16(i))
         IN  /\ r.err # NoErr
             /\ err' = r.err
             /\ tables' = IF ci > Len(tables) THEN Append(tables, K) ELSE tables
    /\ calls' = [calls EXCEPT ![ci] = Append(@, Uint16(i))]
    /\ pc' = "fatal"
    /\ UNCHANGED <<host, port, allResponses, responses, resp, searchErr, loc,
                   ipclients, ci, i, logged>>

\* One iteration of the inner loop whose RPC succeeds: log.Println(pme), i++,
\* and, when the inner loop ends, the next handle.
GetEntryOk ==
    /\ pc = "loop"
    /\ LoopCond(i)
    /\ \E K \in TableChoices :
         LET r == portMappingByIdx(K, Uint16(i))
         IN  /\ r.err = NoErr
             /\ logged' = [logged EXCEPT ![ci] = Append(@, r.pme[1])]
             /\ tables' = IF ci > Len(tables) THEN Append(tables, K) ELSE tables
    /\ calls' = [calls EXCEPT ![ci] = Append(@, Uint16(i))]
    /\ IF LoopCond(i + 1)
       THEN /\ i' = i + 1
            /\ ci' = ci
            /\ pc' = "loop"
       ELSE /\ i' = 0
            /\ ci' = ci + 1
            /\ pc' = NextClient(ci, ipclients)
    /\ err' = NoErr
    /\ UNCHANGED <<host, port, allResponses, responses, resp, searchErr, loc,
                   ipclients>>

Next ==
    \/ NewHTTPUClientErr
    \/ SsdpRawSearchDoErr
    \/ SsdpRawSearch
    \/ UpnpLocationErr
    \/ UpnpLocation
    \/ ResolveErr
    \/ Resolve
    \/ GetEntryErr
    \/ GetEntryOk

Spec == Init /\ [][Next]_vars

----------------------------------------------------------------------------
\* What the claims speak of.

Range(s) == {s[k] : k \in 1..Len(s)}

Min(a, b) == IF a < b THEN a ELSE b

\* Response k of allResponses passes both filters of ssdpRawSearch.
Usable(k) ==
    /\ allResponses[k].StatusCode = StatusOK
    /\ ResponseLocation(allResponses[k]).ok

\* The dedup key of a usable response.
KeyOf(k) ==
    IF allResponses[k].USN # <<>>
    THEN allResponses[k].USN
    ELSE urlString(ResponseLocation(allResponses[k]).url)

Arrived == 1..Len(allResponses)

\* The ":port" at the end of a host, <<>> when it has none.
ColonPort(h) ==
    IF h # <<>> /\ h[1] = "["
    THEN SubSeq(h, LastIndex(h, "]") + 1, Len(h))
    ELSE IF Contains(h, ":") THEN SubSeq(h, LastIndex(h, ":"), Len(h)) ELSE <<>>

\* The URL the selected response advertises.
Advertised == urlParse(allResponses[resp].Location).url

\* The entries at indices 0..n-1 of a table.
Entries(n) == [k \in 1..n |-> Entry(k - 1)]

\* main is through with the handle at position c.
Finished(c) == ci > c \/ pc \in {"done", "fatal"}

----------------------------------------------------------------------------
\* C1 as stated: once main is through with a handle whose table has K entries,
\* it has logged exactly the entries 0..K-1, for every K.
C1_AllEntriesAnyK ==
    \A c \in 1..Len(tables) : Finished(c) => logged[c] = Entries(tables[c])

\* C1 amended: on every handle main calls, the logged entries are at any time
\* the entries 0..n-1 in ascending order, and once main is through with the
\* handle they are exactly the entries 0..min(K, 50)-1; with K < 50 the run
\* has then ended on the failing call at index K.
C1_EntriesUpToLimit ==
    \A c \in 1..Len(tables) :
        LET K == Min(tables[c], MaxEntries)
        IN  /\ Len(logged[c]) <= K
            /\ logged[c] = Entries(Len(logged[c]))
            /\ Finished(c) => logged[c] = Entries(K)
            /\ Finished(c) /\ tables[c] < MaxEntries =>
                 /\ pc = "fatal"
                 /\ calls[c][Len(calls[c])] = tables[c]

C1_Witness ==
    /\ pc = "fatal"
    /\ Len(tables) = 2
    /\ tables[1] = MaxEntries + 1
    /\ tables[2] = 2
    /\ logged[1] = Entries(MaxEntries)
    /\ logged[2] = Entries(2)

\* C2 as stated: of the responses carrying one non-empty USN, when there are
\* two or more, the retained list holds none but the first to arrive.
C2_FirstOfUsnOnly ==
    \A a \in Arrived : \A b \in Arrived :
        (/\ a < b
         /\ allResponses[a].USN # <<>>
         /\ allResponses[a].USN = allResponses[b].USN)
        => b \notin Range(responses)

\* C2 amended: of two usable responses (status 200, parsable Location) with
\* the same non-empty USN the later is never retained, and the earliest usable
\* one is retained unless its key was taken before it; the retained list holds
\* no two responses with the same dedup key and follows the arrival order.
C2_Dedup ==
    /\ \A a \in Arrived : \A b \in Arrived :
         (/\ a < b
          /\ Usable(a)
          /\ Usable(b)
          /\ allResponses[a].USN # <<>>
          /\ allResponses[a].USN = allResponses[b].USN)
         => /\ b \notin Range(responses)
            /\ (\A k \in 1..(a - 1) : Usable(k) => KeyOf(k) # KeyOf(a))
                 => a \in Range(responses)
    /\ Range(responses) \subseteq {k \in Arrived : Usable(k)}
    /\ \A p \in 1..Len(responses) : \A q \in 1..Len(responses) :
         p < q => /\ responses[p] < responses[q]
                  /\ KeyOf(responses[p]) # KeyOf(responses[q])

C2_Witness ==
    /\ pc = "searched"
    /\ Len(allResponses) = 3
    /\ Usable(1) /\ Usable(2) /\ Usable(3)
    /\ allResponses[1].USN = U1
    /\ allResponses[3].USN = U1
    /\ responses = <<1, 2>>

\* C3: a usable response without USN is retained exactly when no response
\* retained before it has its location string as key.
C3_FallbackKey ==
    \A b \in Arrived :
        Usable(b) /\ allResponses[b].USN = <<>>
        => (b \in Range(responses)
            <=> ~\E a \in Range(responses) :
                    /\ a < b
                    /\ KeyOf(a) = urlString(ResponseLocation(allResponses[b]).url))

C3_Witness ==
    /\ pc = "searched"
    /\ Len(allResponses) = 3
    /\ Usable(1) /\ Usable(2) /\ Usable(3)
    /\ allResponses[1].USN = U1
    /\ allResponses[2].USN = <<>>
    /\ allResponses[3].USN = <<>>
    /\ allResponses[2].Location = allResponses[3].Location
    /\ responses = <<1, 2>>

\* C4 as stated: when the advertised host ends in ":p", the location
\* upnpLocation returns has host h:p and the advertised scheme and path.
C4_PortKept ==
    pc = "located" /\ ColonPort(Advertised.Host) # <<>>
    => /\ loc[1].Host = host \o ColonPort(Advertised.Host)
       /\ loc[1].Scheme = Advertised.Scheme
       /\ loc[1].Path = Advertised.Path

\* C5 as stated: when the advertised host has no ":port", the location
\* upnpLocation returns has host h and the advertised path.
C5_NoPortAdded ==
    pc = "located" /\ ColonPort(Advertised.Host) = <<>>
    => /\ loc[1].Host = host
       /\ loc[1].Path = Advertised.Path

\* C6: when httpu.Do returned responses none of which is usable, ssdpRawSearch
\* returns ErrNoResponse and no response; once upnpLocation has returned on it
\* main holds that error and no location and has exited; and a location is
\* held only with a retained response.
C6_EmptyIsError ==
    /\ pc = "searched" /\ searchErr # ErrTransport /\ (\A k \in Arrived : ~Usable(k))
         => searchErr = ErrNoResponse /\ resp = 0 /\ responses = <<>>
    /\ searchErr = ErrNoResponse
         => /\ resp = 0
            /\ \A k \in Arrived : ~Usable(k)
            /\ pc # "searched" => pc = "fatal" /\ err = ErrNoResponse /\ loc = <<>>
    /\ loc # <<>> => responses # <<>> /\ resp = responses[1] /\ searchErr = NoErr

C6_Witness ==
    /\ pc = "fatal"
    /\ err = ErrNoResponse
    /\ loc = <<>>
    /\ Len(allResponses) = 2
    /\ allResponses[1].StatusCode # StatusOK
    /\ allResponses[2].StatusCode = StatusOK
    /\ allResponses[2].Location = BadLocation

\* C7: ssdpRawSearch returns the earliest usable response, whatever arrived
\* before it, and fails only when there is none.
C7_FirstUsable ==
    /\ \A k \in Arrived :
         Usable(k) /\ (\A j \in 1..(k - 1) : ~Usable(j))
         => resp = k /\ searchErr = NoErr
    /\ (\A k \in Arrived : ~Usable(k)) => resp = 0

C7_Witness ==
    /\ pc = "searched"
    /\ Len(allResponses) = 3
    /\ allResponses[1].StatusCode # StatusOK
    /\ allResponses[2].StatusCode = StatusOK
    /\ ~ResponseLocation(allResponses[2]).ok
    /\ Usable(3)
    /\ resp = 3

\* C8 as stated, for a run that has ended: every handle the resolver
\* returned has had its call for index 0.
C8_EveryHandleCalled ==
    pc \in {"done", "fatal"}
    => \A c \in 1..Len(ipclients) : calls[c] # <<>> /\ calls[c][1] = 0

\* C9: a step that leaves main with an error ends in the failure state, and
\* from the failure state nothing moves: no call is added on any handle.
C9_FatalStops ==
    [][/\ err' # NoErr => pc' = "fatal"
       /\ pc = "fatal" => pc' = "fatal" /\ calls' = calls /\ logged' = logged]_vars

C9_Witness ==
    /\ pc = "fatal"
    /\ err = ErrRPC
    /\ Len(ipclients) = 2
    /\ calls = <<<<0, 1, 2>>, <<>>>>

\* C10: on every handle the index arguments so far are 0, 1, 2, ... without
\* gap or repeat, at most 50 of them, each below 2^16 and equal to the loop
\* counter it came from; at most 50 entries are logged, in index order.
C10_BoundedIndices ==
    \A c \in 1..Len(ipclients) :
        /\ Len(calls[c]) <= 50
        /\ \A k \in 1..Len(calls[c]) : calls[c][k] = k - 1 /\ calls[c][k] < 65536
        /\ Len(logged[c]) <= 50
        /\ \A k \in 1..Len(logged[c]) : logged[c][k].NewPortMappingIndex = k - 1
        /\ (pc = "loop" /\ c = ci) => Len(calls[c]) = i

C10_Witness ==
    /\ pc = "loop"
    /\ ci = 2
    /\ tables = <<MaxEntries + 1>>
    /\ Len(calls[1]) = 50
    /\ Len(logged[1]) = 50

====
